---- MODULE Spec2Model ----
(***************************************************************************)
(* A model of the incremental ingestion engine of alphaeye-news-core:      *)
(*   - MongoDataManager        (telegram_scrappers/data_manager.py)        *)
(*   - BasicTextChannelScraper (telegram_scrappers/channels/...)           *)
(*   - TelegramScraperFactory  (telegram_scrappers/scraper_factory.py)     *)
(*   - TelegramScraperManager  (telegram_scrappers/scraper_manager.py)     *)
(* The MongoDB collection and the Telegram channel are the two external    *)
(* collaborators; they are modelled by what the calls the code makes on    *)
(* them do (find_one, insert_one, insert_many, count_documents,            *)
(* iter_messages, get_entity).                                             *)
(***************************************************************************)
EXTENDS Integers, Sequences, FiniteSets, TLC

(***************************************************************************)
(* Bounds of the model.                                                    *)
(***************************************************************************)
\* largest native message id a caller of the store passes / the source holds
MaxId == 1
\* number of documents the collection may hold before the model stops inserting
MaxDocs == 2
\* longest list handed to save_messages
MaxBatch == 2

(***************************************************************************)
(* Values.                                                                 *)
(***************************************************************************)
\* message_data.get('id') is None: the dict carries no id
NoId == 0
\* a dict that was never inserted carries no '_id'
NoOid == 0
\* a dict that was never stamped carries no 'inserted_at'
NoStamp == 0

Ids == 1..MaxId
\* logical channel names; "" stands for a missing or empty 'channel' field
Channels == {"basic_text_channel", "chA"}
NoChannel == ""
\* payloads ('text' and the other content fields)
Texts == {"p", "q"}

\* A message dict as the callers of the store hold it, and a stored document.
Msg(o, i, c, t, s) == [oid |-> o, id |-> i, channel |-> c, text |-> t, inserted_at |-> s]

\* dicts that were never passed to the store
FreshMsgs ==
  { Msg(NoOid, i, c, t, NoStamp) : i \in Ids \cup {NoId}, c \in Channels \cup {NoChannel}, t \in Texts }

VARIABLES
  docs,        \* the documents of the MongoDB collection
  collection,  \* MongoDataManager.collection is not None (connect succeeded once)
  lastOp,      \* the last call on the store API and what it returned
  writers,     \* save_message calls in flight in other processes on the same collection
  scrapers,    \* TelegramScraperFactory._scrapers: the registered keys
  instances,   \* TelegramScraperFactory._instances: key -> cached scraper
  nextUid,     \* identity of the next scraper object constructed
  regOp,       \* the last call on the factory / manager and what it returned
  resolved,    \* per key: the instance the latest get_scraper without options
               \* returned since the key was last removed, and whether a
               \* get_scraper with options was served for the key since then
  mgrClient,   \* TelegramScraperManager.client is set
  mgrOp,       \* the last call on the manager and what it returned
  scraper,     \* a BasicTextChannelScraper object used directly
  source,      \* the Telegram channel: source[i] is the text of message id i
  run          \* the scrape call in progress, or the last one finished

storeVars == <<docs, collection, lastOp>>
raceVars == <<writers>>
regVars == <<scrapers, instances, nextUid, regOp, resolved, mgrClient, mgrOp>>
runVars == <<scraper, source, run>>
vars == <<docs, collection, lastOp, writers, scrapers, instances, nextUid, regOp,
          resolved, mgrClient, mgrOp, scraper, source, run>>

\* lastOp: op (the method), args (the dicts passed), msgs (the same dicts as the
\* call left them), outcomes (the branch taken for each dict), ok / count (the
\* value returned), fail (where the store raised), again (a save_message of the
\* very dict the save_message just before it inserted)
NoOp == [op |-> "none", args |-> <<>>, msgs |-> <<>>, outcomes |-> <<>>, ok |-> FALSE,
         count |-> 0, fail |-> "none", again |-> FALSE]

(***************************************************************************)
(* The collection (pymongo calls made by data_manager.py).                 *)
(***************************************************************************)
Max(S) == CHOOSE x \in S : \A y \in S : y <= x

\* the ObjectId the driver generates next: one no document carries
NextOid(D) == Max({ d.oid : d \in D } \cup {NoOid}) + 1

\* datetime.now() of a call: later than every stamp written so far
Now(D) == Max({ d.inserted_at : d \in D } \cup {NoStamp}) + 1

\* the query save_message builds: {'id': id} plus 'channel' when it is truthy
Query(D, id, channel) ==
  { d \in D : d.id = id /\ (channel # NoChannel => d.channel = channel) }

\* a save_message that skips its existence check
FindOne_Never(D, id, channel) == FALSE

\* collection.find_one(query): some matching document exists
FindOne(D, id, channel) == Query(D, id, channel) # {}

\* the '_id' index of the collection: the only uniqueness the collection enforces
OidTaken(D, o) == \E d \in D : d.oid = o

\* collection.count_documents({"channel": c}) / count_documents({})
CountDocuments(D, channel) ==
  IF channel # NoChannel THEN Cardinality({ d \in D : d.channel = channel })
  ELSE Cardinality(D)

(***************************************************************************)
(* MongoDataManager.save_message as a function of the collection, the      *)
(* dict, and where (if anywhere) the store raises.                         *)
(* fail: "none" | "find" (find_one raises) | "insert" (insert_one raises)  *)
(* outcome: "NotConnected" | "AlreadyExists" | "Inserted" | "DuplicateKey" *)
(*          | "Error"                                                      *)
(***************************************************************************)
\* a store that never notices it is not connected
NotConnected_Never(conn) == FALSE

\* "if self.collection is None" (lines 102, 147, 187)
NotConnected(conn) == ~conn

SaveOutcome(D, conn, m, fail) ==
  IF NotConnected(conn) THEN "NotConnected"
  ELSE IF m.id # NoId /\ fail = "find" THEN "Error"
  ELSE IF m.id # NoId /\ FindOne(D, m.id, m.channel) THEN "AlreadyExists"
  ELSE IF fail = "insert" THEN "Error"
  ELSE IF m.oid # NoOid /\ OidTaken(D, m.oid) THEN "DuplicateKey"
  ELSE "Inserted"

\* the dict after the call: stamped before the insert, '_id' set by insert_one
SavedMsg(D, conn, m, now, fail) ==
  LET o == SaveOutcome(D, conn, m, fail) IN
  IF o \in {"NotConnected", "AlreadyExists"} \/ (o = "Error" /\ fail = "find") THEN m
  ELSE IF o = "Inserted"
       THEN Msg(IF m.oid # NoOid THEN m.oid ELSE NextOid(D), m.id, m.channel, m.text, now)
  ELSE Msg(m.oid, m.id, m.channel, m.text, now)

\* a store in which the last writer wins: a dict whose key is stored replaces
\* the documents its query matches
SavedDocs_LastWins(D, conn, m, now, fail) ==
  LET o == SaveOutcome(D, conn, m, fail) IN
  IF o = "Inserted" THEN D \cup {SavedMsg(D, conn, m, now, fail)}
  ELSE IF o = "AlreadyExists"
       THEN (D \ Query(D, m.id, m.channel)) \cup {Msg(NextOid(D), m.id, m.channel, m.text, now)}
  ELSE D

\* the collection after the call
SavedDocs(D, conn, m, now, fail) ==
  IF SaveOutcome(D, conn, m, fail) = "Inserted"
  THEN D \cup {SavedMsg(D, conn, m, now, fail)}
  ELSE D

\* save_message returns True for Inserted, AlreadyExists and DuplicateKey
SaveReturns(o) == o \in {"Inserted", "AlreadyExists", "DuplicateKey"}

(***************************************************************************)
(* MongoDataManager.save_messages.                                         *)
(***************************************************************************)
\* number of dicts among the first k of B that carry no '_id' yet
RECURSIVE FreshBefore(_, _)
FreshBefore(B, k) ==
  IF k = 0 THEN 0
  ELSE FreshBefore(B, k - 1) + (IF B[k].oid = NoOid THEN 1 ELSE 0)

\* the batch as insert_many sends it: every dict stamped with current_time, and
\* every dict without an '_id' given a newly generated ObjectId
Prepared(D, B, now) ==
  [ k \in 1..Len(B) |->
      Msg(IF B[k].oid # NoOid THEN B[k].oid ELSE NextOid(D) + FreshBefore(B, k - 1),
          B[k].id, B[k].channel, B[k].text, now) ]

\* insert_many(B, ordered=False) on the server: every document whose '_id' is
\* free is written, the others are write errors; no other key is looked at
RECURSIVE InsertManyDocs(_, _, _)
InsertManyDocs(D, B, k) ==
  IF k = 0 THEN D
  ELSE LET Dk == InsertManyDocs(D, B, k - 1) IN
       IF OidTaken(Dk, B[k].oid) THEN Dk ELSE Dk \cup {B[k]}

\* insert_many raises BulkWriteError when some write failed
RECURSIVE BulkWriteError(_, _, _)
BulkWriteError(D, B, k) ==
  IF k = 0 THEN FALSE
  ELSE BulkWriteError(D, B, k - 1) \/ OidTaken(InsertManyDocs(D, B, k - 1), B[k].oid)

\* the except branch: save_message on each dict in turn; fs[k] says where the
\* store raises during the k-th call. The collection after the first k calls:
RECURSIVE FallbackDocs(_, _, _, _, _)
FallbackDocs(D, B, now, fs, k) ==
  IF k = 0 THEN D
  ELSE SavedDocs(FallbackDocs(D, B, now, fs, k - 1), TRUE, B[k], now + k, fs[k])

\* the outcome of the k-th call of the except branch
FallbackOutcome(D, B, now, fs, k) ==
  SaveOutcome(FallbackDocs(D, B, now, fs, k - 1), TRUE, B[k], fs[k])

\* the k-th dict after the except branch
FallbackMsg(D, B, now, fs, k) ==
  SavedMsg(FallbackDocs(D, B, now, fs, k - 1), TRUE, B[k], now + k, fs[k])

\* What save_messages does: [docs, msgs (the dicts afterwards), outcomes (one per
\* dict; "Bulk" when insert_many wrote it), count (the value returned), path]
SaveMessagesResult(D, conn, B0, bulkFail, fs) ==
  LET now == Now(D)
      B == Prepared(D, B0, now) IN
  IF NotConnected(conn)
  THEN [docs |-> D, msgs |-> B0, outcomes |-> <<>>, count |-> 0, path |-> "NotConnected"]
  ELSE IF Len(B0) = 0 THEN [docs |-> D, msgs |-> B0, outcomes |-> <<>>, count |-> 0, path |-> "Empty"]
  ELSE IF ~bulkFail /\ ~BulkWriteError(D, B, Len(B))
  THEN [docs |-> InsertManyDocs(D, B, Len(B)), msgs |-> B,
        outcomes |-> [k \in 1..Len(B) |-> "Bulk"],
        count |-> Len(B), path |-> "InsertMany"]
  ELSE LET D1 == IF bulkFail THEN D ELSE InsertManyDocs(D, B, Len(B))
           outs == [k \in 1..Len(B) |-> FallbackOutcome(D1, B, now, fs, k)]
       IN [docs |-> FallbackDocs(D1, B, now, fs, Len(B)),
           msgs |-> [k \in 1..Len(B) |-> FallbackMsg(D1, B, now, fs, k)],
           outcomes |-> outs,
           count |-> Cardinality({k \in 1..Len(B) : SaveReturns(outs[k])}),
           path |-> "Fallback"]

(***************************************************************************)
(* The store API as called by any client of a MongoDataManager in one      *)
(* event loop: no handler awaits between its pymongo calls, so each is one *)
(* step.                                                                   *)
(***************************************************************************)
FailKinds == {"none", "find", "insert"}

\* the failure points a call on dict m can reach
FailsOf(D, m) ==
  {"none"} \cup (IF m.id # NoId THEN {"find"} ELSE {})
           \cup (IF m.id = NoId \/ ~FindOne(D, m.id, m.channel) THEN {"insert"} ELSE {})

\* MongoDataManager.connect: ping succeeds or raises
Connect ==
  /\ \E ping \in BOOLEAN :
       /\ collection' = (collection \/ ping)
       /\ lastOp' = [NoOp EXCEPT !.op = "connect", !.ok = ping]
  /\ UNCHANGED <<docs, raceVars, regVars, runVars>>

\* MongoDataManager.connect when the server cannot be reached: lines 84-90
ConnectRefused ==
  /\ UNCHANGED collection
  /\ lastOp' = [NoOp EXCEPT !.op = "connect", !.ok = FALSE]
  /\ UNCHANGED <<docs, raceVars, regVars, runVars>>

\* save_message(m), for a dict m of the set M
SaveMessageOf(M) ==
  \E m \in M : \E fail \in FailsOf(docs, m) :
    LET o == SaveOutcome(docs, collection, m, fail)
        D == SavedDocs(docs, collection, m, Now(docs), fail)
    IN /\ Cardinality(D) <= MaxDocs
       /\ docs' = D
       /\ lastOp' = [op |-> "save_message", args |-> <<m>>,
                     msgs |-> <<SavedMsg(docs, collection, m, Now(docs), fail)>>,
                     outcomes |-> <<o>>, ok |-> SaveReturns(o), count |-> 0, fail |-> fail,
                     again |-> /\ lastOp.op = "save_message"
                               /\ lastOp.outcomes = <<"Inserted">>
                               /\ lastOp.msgs = <<m>>]
       /\ UNCHANGED <<collection, raceVars, regVars, runVars>>

\* save_messages(B), for a list B of dicts of the set M
SaveMessagesOf(M) ==
  \E n \in 0..MaxBatch : \E B \in [1..n -> M] :
  \E bulkFail \in BOOLEAN :
  \E fs \in (IF SaveMessagesResult(docs, collection, B, bulkFail,
                                    [k \in 1..n |-> "none"]).path = "Fallback"
             THEN [1..n -> FailKinds] ELSE {[k \in 1..n |-> "none"]}) :
    LET r == SaveMessagesResult(docs, collection, B, bulkFail, fs) IN
    /\ (r.path # "Fallback" => ~bulkFail)
    /\ Cardinality(r.docs) <= MaxDocs
    /\ docs' = r.docs
    /\ lastOp' = [op |-> "save_messages", args |-> B, msgs |-> r.msgs, outcomes |-> r.outcomes,
                  ok |-> (r.path \in {"InsertMany", "Fallback"}), count |-> r.count,
                  fail |-> IF bulkFail THEN "insert" ELSE "none", again |-> FALSE]
    /\ UNCHANGED <<collection, raceVars, regVars, runVars>>

GetMessageCount ==
  \E c \in Channels \cup {NoChannel} : \E fail \in {"none", "find"} :
    /\ lastOp' = [op |-> "get_message_count", args |-> <<Msg(NoOid, NoId, c, "p", NoStamp)>>,
                  msgs |-> <<>>, outcomes |-> <<>>,
                  ok |-> (~NotConnected(collection) /\ fail = "none"),
                  count |-> IF ~NotConnected(collection) /\ fail = "none"
                            THEN CountDocuments(docs, c) ELSE 0,
                  fail |-> fail, again |-> FALSE]
    /\ UNCHANGED <<docs, collection, raceVars, regVars, runVars>>

\* dicts a caller may pass: new ones, or ones an earlier call already inserted
\* (those carry the '_id' and the stamp of their document)
CallerMsgs == FreshMsgs \cup docs

SaveMessage == SaveMessageOf(CallerMsgs)

\* the dicts handed to save_messages in SpecBatch: one channel, one payload
BatchMsgs == { m \in FreshMsgs : m.channel = "chA" /\ m.text = "p" } \cup docs

SaveMessageB == SaveMessageOf(BatchMsgs)

SaveMessages == SaveMessagesOf(BatchMsgs)

StoreInit ==
  /\ docs = {}
  /\ collection = FALSE
  /\ lastOp = NoOp

(***************************************************************************)
(* save_message called from several processes (each with its own connected *)
(* MongoDataManager) on one collection. Inside one event loop the handler  *)
(* never awaits, but between processes the server interleaves the two      *)
(* round trips of a call: find_one, then insert_one.                       *)
(***************************************************************************)
\* number of concurrent writer processes
NWriters == 3

Writers == 1..NWriters

\* the dicts writer w passes: new dicts with a payload of its own
RaceMsgs(w) == { Msg(NoOid, i, c, ToString(w), NoStamp) : i \in Ids, c \in Channels }

IdleWriter == [pc |-> "idle", msg |-> Msg(NoOid, NoId, NoChannel, "p", NoStamp), outcome |-> "none"]

\* lines 106-119: the call is made and find_one answers
RaceFind(w) ==
  /\ writers[w].pc = "idle"
  /\ \E m \in RaceMsgs(w) :
       writers' = [writers EXCEPT ![w] =
                     IF FindOne(docs, m.id, m.channel)
                     THEN [pc |-> "done", msg |-> m, outcome |-> "AlreadyExists"]
                     ELSE [pc |-> "insert", msg |-> m, outcome |-> "none"]]
  /\ UNCHANGED <<storeVars, regVars, runVars>>

\* lines 121-128: the dict is stamped and insert_one writes it
RaceInsert(w) ==
  /\ writers[w].pc = "insert"
  /\ LET d == Msg(NextOid(docs), writers[w].msg.id, writers[w].msg.channel,
                  writers[w].msg.text, Now(docs))
     IN /\ docs' = docs \cup {d}
        /\ writers' = [writers EXCEPT ![w] = [pc |-> "done", msg |-> d, outcome |-> "Inserted"]]
  /\ UNCHANGED <<collection, lastOp, regVars, runVars>>

RaceInit == writers = [w \in Writers |-> IdleWriter]

(***************************************************************************)
(* TelegramScraperFactory (scraper_factory.py). The only scraper class of  *)
(* the repository is BasicTextChannelScraper, so a registration is its key.*)
(***************************************************************************)
\* number of scraper objects constructed before the model stops constructing
MaxInst == 3

\* registry keys: the module name discovery registers, and a channel name
Keys == Channels

\* the slot of a key that has no cached instance
\* (connected is not an attribute: it records that some connect call on the
\* object has returned True)
NoInst == [uid |-> 0, channel_name |-> "", save_to_mongo |-> FALSE, client |-> FALSE, dm |-> FALSE,
           connected |-> FALSE]

Cached(I, k) == I[k].uid # 0

\* **kwargs of get_scraper: given is "kwargs is not empty"; channel_name "" and
\* save_to_mongo TRUE are the defaults of an option that is not passed
NoOpts == [given |-> FALSE, channel_name |-> "", save_to_mongo |-> TRUE]

OptsSet == {NoOpts} \cup [given : {TRUE}, channel_name : Channels \cup {""}, save_to_mongo : BOOLEAN]

\* BasicTextChannelScraper.__init__: no client, a MongoDataManager that is not
\* connected when save_to_mongo is set (dm is "data_manager.collection is set")
NewScraper(uid, key, opts) ==
  [uid |-> uid,
   channel_name |-> IF opts.channel_name # "" THEN opts.channel_name ELSE key,
   save_to_mongo |-> opts.save_to_mongo,
   client |-> FALSE,
   dm |-> FALSE,
   connected |-> FALSE]

\* a get_scraper that never looks at its cache
Constructs_Always(I, key, opts) == TRUE

\* a get_scraper that keeps the cached instance whatever options are passed
Constructs_Uncached(I, key, opts) == ~Cached(I, key)

\* line 51: a new instance is made when none is cached or options are passed
Constructs(I, key, opts) == ~Cached(I, key) \/ opts.given

\* a get_scraper that does not look the key up in the registrations
GetScraperResult_Unchecked(S, I, uid, key, opts) ==
  IF Constructs(I, key, opts)
  THEN [raised |-> "none",
        instances |-> [I EXCEPT ![key] = NewScraper(uid, key, opts)],
        ret |-> uid]
  ELSE [raised |-> "none", instances |-> I, ret |-> I[key].uid]

\* get_scraper: [raised, instances (afterwards), ret (the uid returned, 0 when raised)]
GetScraperResult(S, I, uid, key, opts) ==
  IF key \notin S THEN [raised |-> "KeyError", instances |-> I, ret |-> 0]
  ELSE IF Constructs(I, key, opts)
       THEN [raised |-> "none",
             instances |-> [I EXCEPT ![key] = NewScraper(uid, key, opts)],
             ret |-> uid]
       ELSE [raised |-> "none", instances |-> I, ret |-> I[key].uid]

\* regOp: op, key, opts (the call), raised (the exception that left it), ret (the
\* uid of the scraper returned), ok (the bool returned), again (a get_scraper
\* without options for a key that an earlier get_scraper without options was
\* served for, with neither a remove_scraper of the key nor a get_scraper with
\* options for it in between)
\* renewed (a get_scraper without options that returns another instance than
\* the latest get_scraper without options for the key, a get_scraper with
\* options but no remove_scraper having been served for the key in between)
\* evicted (a get_scraper right after the remove_scraper of its key, which had
\* an instance cached; for remove_scraper, ret is the uid of the instance it
\* deleted); of auto_discover_scrapers: loads (what importing each module did), found (the
\* list returned)
RegOp(op, key, opts, raised, ret, ok) ==
  [op |-> op, key |-> key, opts |-> opts, raised |-> raised, ret |-> ret, ok |-> ok,
   again |-> FALSE, evicted |-> FALSE, renewed |-> FALSE,
   loads |-> [k \in Keys |-> "none"], found |-> {}]

NoResolved == [uid |-> 0, opts |-> FALSE]

\* resolved after a get_scraper(k, opts) whose result is r
ResolvedAfter(R, k, opts, r) ==
  IF r.raised # "none" THEN R
  ELSE IF opts.given THEN [R EXCEPT ![k].opts = (R[k].uid # 0)]
  ELSE [R EXCEPT ![k] = [uid |-> r.ret, opts |-> FALSE]]

\* regOp and resolved record the calls made on the factory directly; the calls
\* of the manager are recorded in mgrOp.
\* mgrOp: op, name, type (the call), ok (add_channel / remove_channel /
\* initialize: the bool returned), ret (the uid of the scraper the call got from
\* the factory, 0 if none), entries (the channel names the returned mapping has
\* an entry for), results (the list returned per channel name), runs (per
\* registry key: ran - scrape was called on its instance; failed - a connect
\* made by the call returned False or the scrape ended by an exception;
\* result - the list its scrape returned, <<>> if it raised), raised (the
\* exception that left the call, "none" when it returned)
NoRun == [ran |-> FALSE, failed |-> FALSE, result |-> <<>>]

NoMgrOp ==
  [op |-> "none", name |-> "", type |-> "", ok |-> FALSE, ret |-> 0, raised |-> "none",
   entries |-> {}, results |-> [c \in Channels |-> <<>>], runs |-> [k \in Keys |-> NoRun]]

\* register_scraper(key, cls): TypeError unless cls is a BaseTelegramScraper
RegisterScraper ==
  \E k \in Keys : \E subclass \in BOOLEAN :
    /\ scrapers' = IF subclass THEN scrapers \cup {k} ELSE scrapers
    /\ regOp' = RegOp("register_scraper", k, NoOpts,
                      IF subclass THEN "none" ELSE "TypeError", 0, subclass)
    /\ UNCHANGED <<instances, nextUid, resolved, mgrClient, mgrOp, storeVars, raceVars, runVars>>

GetScraper ==
  \E k \in Keys : \E opts \in OptsSet :
    LET r == GetScraperResult(scrapers, instances, nextUid, k, opts) IN
    /\ (r.ret = nextUid => nextUid <= MaxInst)
    /\ instances' = r.instances
    /\ nextUid' = IF r.ret = nextUid THEN nextUid + 1 ELSE nextUid
    /\ regOp' = [RegOp("get_scraper", k, opts, r.raised, r.ret, r.raised = "none")
                   EXCEPT !.again = /\ ~opts.given /\ r.raised = "none"
                                    /\ resolved[k].uid # 0 /\ ~resolved[k].opts,
                          !.evicted = /\ regOp.op = "remove_scraper" /\ regOp.key = k
                                      /\ regOp.ret # 0,
                          !.renewed = /\ ~opts.given /\ r.raised = "none"
                                      /\ resolved[k].uid # 0 /\ resolved[k].opts
                                      /\ r.ret # resolved[k].uid]
    /\ resolved' = ResolvedAfter(resolved, k, opts, r)
    /\ UNCHANGED <<scrapers, mgrClient, mgrOp, storeVars, raceVars, runVars>>

\* a remove_scraper that leaves the cached instance in place
Evicted_Kept(I, k) == I

\* lines 95-96: the instance cached under the key, if any, is deleted
Evicted(I, k) == [I EXCEPT ![k] = NoInst]

\* a remove_scraper that leaves the registration in place
Unregistered_Kept(S, k) == S

\* lines 98-99: the registration stored under the key, if any, is deleted
Unregistered(S, k) == S \ {k}

\* remove_scraper: True exactly when a registration was stored under the key
RemoveScraper ==
  \E k \in Keys :
    /\ instances' = Evicted(instances, k)
    /\ scrapers' = Unregistered(scrapers, k)
    /\ regOp' = RegOp("remove_scraper", k, NoOpts, "none", instances[k].uid, k \in scrapers)
    /\ resolved' = [resolved EXCEPT ![k] = NoResolved]
    /\ UNCHANGED <<nextUid, mgrClient, mgrOp, storeVars, raceVars, runVars>>

\* auto_discover_scrapers walks channels/*.py (the module the repository ships,
\* and a second file a deployment may add) in the order glob yields them
DiscoverOrders == { o \in Keys \X Keys : o[1] # o[2] }

\* what import_module and the class scan do for one file: "ok" (a scraper class is
\* found and registered), "ImportError" (ImportError or AttributeError, caught
\* at line 138), "Error" (any other exception, e.g. SyntaxError or NameError
\* raised by the module body: no except clause matches it)
LoadKinds == {"ok", "ImportError", "Error"}

\* lines 111-141: found is the list returned, raised says an exception left the
\* loop, after which no later file is looked at
DiscoverResult(S, order, loads) ==
  LET bad == { i \in 1..Len(order) : loads[order[i]] = "Error" }
      stop == IF bad = {} THEN Len(order) + 1 ELSE CHOOSE i \in bad : \A j \in bad : i <= j
      found == { order[i] : i \in { n \in 1..Len(order) : n < stop /\ loads[order[n]] = "ok" } }
  IN [scrapers |-> S \cup found, found |-> found, raised |-> bad # {}]

AutoDiscover ==
  \E order \in DiscoverOrders : \E loads \in [Keys -> LoadKinds] :
    LET r == DiscoverResult(scrapers, order, loads) IN
    /\ scrapers' = r.scrapers
    /\ regOp' = [RegOp("auto_discover_scrapers", "", NoOpts,
                       IF r.raised THEN "Error" ELSE "none", 0, ~r.raised)
                   EXCEPT !.loads = loads, !.found = IF r.raised THEN {} ELSE r.found]
    /\ UNCHANGED <<instances, nextUid, resolved, mgrClient, mgrOp, storeVars, raceVars, runVars>>

RegInit ==
  /\ scrapers = {}
  /\ instances = [k \in Keys |-> NoInst]
  /\ nextUid = 1
  /\ regOp = RegOp("none", "", NoOpts, "none", 0, FALSE)
  /\ resolved = [k \in Keys |-> NoResolved]
  /\ mgrClient = FALSE
  /\ mgrOp = NoMgrOp

(***************************************************************************)
(* BasicTextChannelScraper (channels/basic_text_channel.py) and the        *)
(* Telegram channel it reads.                                              *)
(***************************************************************************)
\* number of messages the channel may hold
MaxMsgs == 2
\* largest limit passed to scrape
MaxLimit == 2
\* limit=None: iter_messages yields every message
NoLimit == 0

Limits == {NoLimit} \cup (1..MaxLimit)

Min(a, b) == IF a <= b THEN a ELSE b

\* the ids lo..hi, newest first (iter_messages runs from the newest message back)
Desc(lo, hi) == [k \in 1..(IF hi >= lo THEN hi - lo + 1 ELSE 0) |-> hi - k + 1]

\* an iter_messages that is not given the limit
IterMessages_NoLimit(src, min_id, limit) == Desc(min_id + 1, Len(src))

\* client.iter_messages(channel_id, min_id=.., limit=..): the messages with an
\* id above min_id, newest first, at most limit of them
IterMessages(src, min_id, limit) ==
  LET all == Desc(min_id + 1, Len(src)) IN
  IF limit = NoLimit THEN all ELSE SubSeq(all, 1, Min(limit, Len(all)))

\* a scraper that takes every message to carry text
HasText_Always(text) == TRUE

\* line 120: "if not message.text: continue"
HasText(text) == text # ""

\* process_message: the dict built from message id of the channel
ProcessMessage(inst, id, text) == Msg(NoOid, id, inst.channel_name, text, NoStamp)

\* line 86, data_manager.get_latest_message_id(channel_name): MongoDataManager
\* (data_manager.py, the whole class) defines no such method and no
\* __getattr__, so evaluating the attribute raises AttributeError; no value is
\* ever returned
GetLatestMessageId(D, channel) == [raised |-> TRUE, value |-> NoId]

\* the ids stored under a channel
StoredIds(D, channel) == { d.id : d \in { e \in D : e.channel = channel /\ e.id # NoId } }

IdleRun ==
  [pc |-> "idle", channel |-> "", persist |-> FALSE, dm |-> FALSE, limit |-> NoLimit,
   lookup |-> "none", latest |-> NoId, incremental |-> FALSE, before |-> {},
   srcLen |-> 0, plan |-> <<>>, queue |-> <<>>, fetched |-> 0, messages |-> <<>>,
   saved |-> {}, failed |-> {}, error |-> "none", raised |-> FALSE, result |-> <<>>,
   connected |-> FALSE, bad |-> {}, again |-> FALSE]

\* scrape(limit), lines 77-107, up to the first request to the channel.
\* run fields: channel / persist / dm (the scraper's channel_name, whether it has
\* a data_manager, whether that is connected), lookup / latest (the watermark
\* read), incremental, before (ids stored under the channel when the call
\* began), srcLen, plan (what iter_messages will yield), queue (what it has yet
\* to yield), fetched, messages, saved / failed (ids whose save_message returned
\* True / False), error (the exception caught), raised (it left scrape), result,
\* connected (some connect of the scraper had returned True when the call
\* began), bad (ids whose process_message raised), again (the scraper had
\* finished a scrape call before this one)
ScrapeBegin(inst, limit, D, src) ==
  LET base == [IdleRun EXCEPT !.channel = inst.channel_name, !.persist = inst.save_to_mongo,
                              !.dm = inst.dm, !.limit = limit,
                              !.connected = inst.connected,
                              !.before = StoredIds(D, inst.channel_name),
                              !.srcLen = Len(src)]
      lk == GetLatestMessageId(D, inst.channel_name)
  IN
  IF ~inst.client
  THEN [base EXCEPT !.pc = "done", !.error = "RuntimeError", !.raised = TRUE]
  ELSE IF inst.save_to_mongo /\ lk.raised
  THEN [base EXCEPT !.pc = "done", !.lookup = "AttributeError", !.error = "AttributeError"]
  ELSE IF inst.save_to_mongo /\ lk.value # NoId
  THEN [base EXCEPT !.pc = "iter", !.lookup = "ok", !.latest = lk.value, !.incremental = TRUE,
                    !.plan = IterMessages(src, lk.value, NoLimit),
                    !.queue = IterMessages(src, lk.value, NoLimit)]
  ELSE [base EXCEPT !.pc = "iter", !.lookup = IF inst.save_to_mongo THEN "ok" ELSE "none",
                    !.plan = IterMessages(src, NoId, limit),
                    !.queue = IterMessages(src, NoId, limit)]

\* the value connect returns: False from the except clause when get_entity
\* raised, True otherwise; the value of data_manager.connect() (line 53) is
\* only printed
ConnectReturns(inst, entityOk, mongoOk) == entityOk

\* BasicTextChannelScraper.connect(client): the client is kept, get_entity
\* raises (connect returns False) or not, then the data_manager (if any) connects
\* or not (connect returns True either way)
ConnectScraper(inst, entityOk, mongoOk) ==
  [inst EXCEPT !.client = TRUE,
               !.dm = inst.dm \/ (entityOk /\ inst.save_to_mongo /\ mongoOk),
               !.connected = inst.connected \/ ConnectReturns(inst, entityOk, mongoOk)]

\* scraper.connect(client) on the directly used scraper
ScraperConnect ==
  /\ run.pc # "iter"
  /\ \E entityOk \in BOOLEAN : \E mongoOk \in BOOLEAN :
       scraper' = ConnectScraper(scraper, entityOk, mongoOk)
  /\ UNCHANGED <<source, run, storeVars, raceVars, regVars>>

\* the holder of a cached scraper connects it: scraper.connect(client)
ConnectCached ==
  \E k \in Keys : \E entityOk \in BOOLEAN : \E mongoOk \in BOOLEAN :
    /\ Cached(instances, k)
    /\ instances' = [instances EXCEPT ![k] = ConnectScraper(@, entityOk, mongoOk)]
    /\ regOp' = RegOp("connect", k, NoOpts, "none", 0, FALSE)
    /\ UNCHANGED <<scrapers, nextUid, resolved, mgrClient, mgrOp, storeVars, raceVars, runVars>>

\* scraper.scrape(limit) is called
ScrapeStart ==
  /\ run.pc # "iter"
  /\ \E limit \in Limits :
       run' = [ScrapeBegin(scraper, limit, docs, source) EXCEPT !.again = (run.pc = "done")]
  /\ UNCHANGED <<scraper, source, storeVars, raceVars, regVars>>

\* one turn of the loop, lines 109-130: the iterator yields the next message (or
\* the request raises), a message without text is skipped, the others are
\* processed (process_message may raise, e.g. on a message without a date),
\* appended and, with a data_manager, saved; an exception raised in the loop is
\* caught at line 149 and ends the call with []
ScrapeItem ==
  /\ run.pc = "iter"
  /\ run.queue # <<>>
  /\ LET id == Head(run.queue)
         text == source[id]
         m == ProcessMessage([channel_name |-> run.channel], id, text)
     IN \E boom \in BOOLEAN :
        \E terr \in (IF ~boom /\ HasText(text) THEN BOOLEAN ELSE {FALSE}) :
        \E fail \in (IF ~boom /\ ~terr /\ run.persist /\ HasText(text)
                     THEN FailsOf(docs, m) ELSE {"none"}) :
          IF boom
          THEN /\ run' = [run EXCEPT !.pc = "done", !.error = "SourceError", !.result = <<>>]
               /\ UNCHANGED docs
          ELSE IF terr
          THEN /\ run' = [run EXCEPT !.pc = "done", !.error = "TransformError", !.result = <<>>,
                                     !.queue = Tail(run.queue), !.fetched = run.fetched + 1,
                                     !.bad = run.bad \cup {id}]
               /\ UNCHANGED docs
          ELSE IF ~HasText(text)
          THEN /\ run' = [run EXCEPT !.queue = Tail(run.queue), !.fetched = run.fetched + 1]
               /\ UNCHANGED docs
          ELSE LET o == SaveOutcome(docs, run.dm, m, fail) IN
               /\ run' = [run EXCEPT !.queue = Tail(run.queue), !.fetched = run.fetched + 1,
                                     !.messages = Append(run.messages, id),
                                     !.saved = IF run.persist /\ SaveReturns(o)
                                               THEN run.saved \cup {id} ELSE run.saved,
                                     !.failed = IF run.persist /\ ~SaveReturns(o)
                                                THEN run.failed \cup {id} ELSE run.failed]
               /\ docs' = IF run.persist THEN SavedDocs(docs, run.dm, m, Now(docs), fail)
                          ELSE docs
               /\ Cardinality(docs') <= MaxDocs
  /\ UNCHANGED <<scraper, source, collection, lastOp, raceVars, regVars>>

\* lines 132-148: the iterator is exhausted and the list is returned
ScrapeFinish ==
  /\ run.pc = "iter"
  /\ run.queue = <<>>
  /\ run' = [run EXCEPT !.pc = "done", !.result = run.messages]
  /\ UNCHANGED <<scraper, source, storeVars, raceVars, regVars>>

\* the task running scrape is cancelled while the loop waits for the next
\* message: CancelledError is not an Exception, so line 149 does not catch it
ScrapeCancel ==
  /\ run.pc = "iter"
  /\ run' = [run EXCEPT !.pc = "done", !.error = "Cancelled", !.raised = TRUE]
  /\ UNCHANGED <<scraper, source, storeVars, raceVars, regVars>>

\* a message is posted in the channel, with or without text
Post ==
  /\ Len(source) < MaxMsgs
  /\ \E text \in {"", "p"} : source' = Append(source, text)
  /\ UNCHANGED <<scraper, run, storeVars, raceVars, regVars>>

\* records of the channel written by another process through save_message
SeedMsgs == { Msg(NoOid, i, "chA", "p", NoStamp) : i \in 1..MaxMsgs }

OtherWriter ==
  /\ \E m \in SeedMsgs :
       /\ docs' = SavedDocs(docs, TRUE, m, Now(docs), "none")
       /\ docs' # docs
       /\ Cardinality(docs') <= MaxDocs
  /\ UNCHANGED <<collection, lastOp, raceVars, regVars, runVars>>

RunInit ==
  /\ scraper = NoInst
  /\ source = <<>>
  /\ run = IdleRun

\* SpecRun starts from a scraper constructed for channel "chA", with or without
\* save_to_mongo
RunInitScraper ==
  /\ scraper \in { NewScraper(1, "chA", [NoOpts EXCEPT !.save_to_mongo = b]) : b \in BOOLEAN }
  /\ source = <<>>
  /\ run = IdleRun

(***************************************************************************)
(* TelegramScraperManager (scraper_manager.py). Its handlers are coroutines *)
(* of one event loop; each is modelled as one step, with the outcome of     *)
(* every request it awaits (get_entity, the MongoDB ping, iter_messages)    *)
(* chosen by the environment.                                               *)
(***************************************************************************)
\* a whole scrape(limit) call on instance inst: the record of the finished run.
\* fault: a request to the channel raises during the loop. A scraper that has a
\* data_manager never reaches the loop (GetLatestMessageId raises), so no
\* save_message is made here.
ScrapeAll(inst, limit, D, src, fault) ==
  LET b == ScrapeBegin(inst, limit, D, src)
      texts == SelectSeq(b.plan, LAMBDA i : HasText(src[i]))
  IN IF b.pc = "done" THEN b
     ELSE IF fault /\ b.plan # <<>>
     THEN [b EXCEPT !.pc = "done", !.error = "SourceError", !.result = <<>>]
     ELSE [b EXCEPT !.pc = "done", !.queue = <<>>, !.fetched = Len(b.plan),
                    !.messages = texts, !.result = texts]

\* the exceptions the handlers meet; all are subclasses of Exception
Exceptions == {"KeyError", "RuntimeError", "AttributeError", "SourceError", "TypeError"}

\* handlers that catch KeyError only
CaughtByManager_KeyError(e) == e = "KeyError"

\* "except Exception as e" around the body of add_channel (111), scrape_channel
\* (139) and of each turn of the loop of scrape_all_channels (168)
CaughtByManager(e) == e \in Exceptions

\* what leaves a handler when e is raised inside its try
Escaped(e) == IF e # "none" /\ ~CaughtByManager(e) THEN e ELSE "none"

\* get_registered_channels: get_info() of every cached instance (channel_name
\* and the config it was constructed with)
GetRegisteredChannels(I) ==
  { [channel_name |-> I[k].channel_name, save_to_mongo |-> I[k].save_to_mongo] :
      k \in { j \in Keys : Cached(I, j) } }

\* lines 130-135 / 159-164 for one scraper: connect when it has no client and the
\* manager has one (the value connect returns is dropped), then scrape; an
\* exception that leaves scrape is caught by the manager
ManagedRun(inst, client, limit, D, src, entityOk, mongoOk, fault) ==
  LET need == ~inst.client /\ client
      inst1 == IF need THEN ConnectScraper(inst, entityOk, mongoOk) ELSE inst
      r == ScrapeAll(inst1, limit, D, src, fault)
  IN [inst |-> inst1,
      run |-> [ran |-> TRUE,
               failed |-> (need /\ ~ConnectReturns(inst, entityOk, mongoOk)) \/ r.error # "none",
               result |-> IF r.raised THEN <<>> ELSE r.result],
      raised |-> Escaped(IF r.raised THEN r.error ELSE "none")]

\* the outcomes the environment can give a call: those of a connect only when the
\* call connects, a failing request to the channel only when a request is made
EntityOutcomes(inst, client) == IF inst.uid # 0 /\ ~inst.client /\ client THEN BOOLEAN ELSE {TRUE}

MongoOutcomes(inst, client) ==
  IF inst.uid # 0 /\ ~inst.client /\ client /\ inst.save_to_mongo THEN BOOLEAN ELSE {TRUE}

FaultOutcomes(inst, client, src) ==
  IF inst.uid # 0 /\ (inst.client \/ client) /\ ~inst.save_to_mongo /\ src # <<>>
  THEN BOOLEAN ELSE {FALSE}

\* the orders in which the _instances dict can hold its keys; the order shows
\* only when two instances have one channel_name
DictOrders(I) ==
  IF \A o \in DiscoverOrders : Cached(I, o[1]) /\ Cached(I, o[2])
                                 /\ I[o[1]].channel_name = I[o[2]].channel_name
  THEN DiscoverOrders
  ELSE { CHOOSE o \in DiscoverOrders : TRUE }

\* initialize: the telethon import fails (client stays None), or the client
\* object is assigned and start() raises, or start() succeeds
Initialize ==
  \E outcome \in {"ImportError", "StartError", "ok"} :
    /\ mgrClient' = (mgrClient \/ outcome # "ImportError")
    /\ mgrOp' = [NoMgrOp EXCEPT !.op = "initialize", !.ok = (outcome = "ok")]
    /\ UNCHANGED <<scrapers, instances, nextUid, regOp, resolved, storeVars, raceVars, runVars>>

\* add_channel(channel_name=n, scraper_type=t, **kwargs): get_scraper is called
\* with channel_id and channel_name, so with options
AddChannel ==
  \E n \in Channels : \E t \in Keys : \E stm \in BOOLEAN :
    LET opts == [given |-> TRUE, channel_name |-> n, save_to_mongo |-> stm]
        r == GetScraperResult(scrapers, instances, nextUid, t, opts)
    IN \E entityOk \in EntityOutcomes(r.instances[t], mgrClient) :
       \E mongoOk \in MongoOutcomes(r.instances[t], mgrClient) :
       /\ (r.ret = nextUid => nextUid <= MaxInst)
       /\ nextUid' = IF r.ret = nextUid THEN nextUid + 1 ELSE nextUid
       /\ instances' = IF r.raised = "none" /\ mgrClient
                       THEN [r.instances EXCEPT ![t] = ConnectScraper(@, entityOk, mongoOk)]
                       ELSE r.instances
       /\ mgrOp' = [NoMgrOp EXCEPT !.op = "add_channel", !.name = n, !.type = t,
                                   !.ok = (r.raised = "none" /\ mgrClient), !.ret = r.ret,
                                   !.raised = Escaped(r.raised)]
       /\ UNCHANGED <<scrapers, regOp, resolved, mgrClient, storeVars, raceVars, runVars>>

\* scrape_channel(channel_name=n, limit): the scraper is looked up under the
\* channel name, without options
ScrapeChannel ==
  \E n \in Channels : \E limit \in Limits :
    LET r == GetScraperResult(scrapers, instances, nextUid, n, NoOpts)
    IN \E entityOk \in EntityOutcomes(r.instances[n], mgrClient) :
       \E mongoOk \in MongoOutcomes(r.instances[n], mgrClient) :
       \E fault \in FaultOutcomes(r.instances[n], mgrClient, source) :
       LET m == ManagedRun(r.instances[n], mgrClient, limit, docs, source,
                           entityOk, mongoOk, fault)
       IN
       /\ (r.ret = nextUid => nextUid <= MaxInst)
       /\ nextUid' = IF r.ret = nextUid /\ r.raised = "none" THEN nextUid + 1 ELSE nextUid
       /\ instances' = IF r.raised = "none" THEN [r.instances EXCEPT ![n] = m.inst]
                       ELSE instances
       /\ mgrOp' = IF r.raised = "none"
                   THEN [NoMgrOp EXCEPT !.op = "scrape_channel", !.name = n, !.type = n,
                                        !.ok = ~m.run.failed, !.ret = r.ret,
                                        !.entries = {n}, !.results[n] = m.run.result,
                                        !.runs[n] = m.run, !.raised = m.raised]
                   ELSE [NoMgrOp EXCEPT !.op = "scrape_channel", !.name = n, !.type = n,
                                        !.entries = {n}, !.raised = Escaped(r.raised)]
       /\ UNCHANGED <<scrapers, regOp, resolved, mgrClient, storeVars, raceVars, runVars>>

\* scrape_all_channels(limit): every cached instance in turn (order is the order
\* of the _instances dict); results[channel_name] is assigned per instance, a
\* later instance with the same channel_name overwrites an earlier one
ScrapeAllChannels ==
  \E limit \in Limits : \E order \in DictOrders(instances) :
  \E entityOk \in { f \in [Keys -> BOOLEAN] :
                      \A k \in Keys : f[k] \in EntityOutcomes(instances[k], mgrClient) } :
  \E mongoOk \in { f \in [Keys -> BOOLEAN] :
                     \A k \in Keys : f[k] \in MongoOutcomes(instances[k], mgrClient) } :
  \E fault \in { f \in [Keys -> BOOLEAN] :
                   \A k \in Keys : f[k] \in FaultOutcomes(instances[k], mgrClient, source) } :
    LET m == [k \in Keys |->
                ManagedRun(instances[k], mgrClient, limit, docs, source,
                           entityOk[k], mongoOk[k], fault[k])]
        a == order[1]
        b == order[2]
        res == [c \in Channels |->
                  IF Cached(instances, b) /\ instances[b].channel_name = c THEN m[b].run.result
                  ELSE IF Cached(instances, a) /\ instances[a].channel_name = c
                  THEN m[a].run.result
                  ELSE <<>>]
    IN /\ instances' = [k \in Keys |-> IF Cached(instances, k) THEN m[k].inst ELSE instances[k]]
       /\ mgrOp' = [NoMgrOp EXCEPT
                      !.op = "scrape_all_channels",
                      !.entries = { instances[k].channel_name :
                                      k \in { j \in Keys : Cached(instances, j) } },
                      !.results = res,
                      !.runs = [k \in Keys |-> IF Cached(instances, k) THEN m[k].run ELSE NoRun],
                      !.raised = IF \E k \in Keys : Cached(instances, k) /\ m[k].raised # "none"
                                 THEN "RuntimeError" ELSE "none"]
       /\ UNCHANGED <<scrapers, nextUid, regOp, resolved, mgrClient, storeVars, raceVars, runVars>>

\* remove_channel(channel_name=n): remove_scraper(n)
RemoveChannel ==
  \E n \in Channels :
    /\ instances' = Evicted(instances, n)
    /\ scrapers' = Unregistered(scrapers, n)
    /\ mgrOp' = [NoMgrOp EXCEPT !.op = "remove_channel", !.name = n, !.ok = (n \in scrapers),
                                !.ret = instances[n].uid]
    /\ UNCHANGED <<nextUid, regOp, resolved, mgrClient, storeVars, raceVars, runVars>>

\* a message is posted in the channels the manager reads
PostAny ==
  /\ Len(source) < MaxMsgs
  /\ \E text \in {"", "p"} : source' = Append(source, text)
  /\ UNCHANGED <<scraper, run, storeVars, raceVars, regVars>>

\* TelegramScraperManager(...) constructed: discovery has registered the module
\* channels/basic_text_channel.py; a second scraper class may be registered
InitManager ==
  /\ StoreInit /\ RaceInit /\ RunInit
  /\ scrapers \in { {"basic_text_channel"}, Keys }
  /\ instances = [k \in Keys |-> NoInst]
  /\ nextUid = 1
  /\ regOp = RegOp("none", "", NoOpts, "none", 0, FALSE)
  /\ resolved = [k \in Keys |-> NoResolved]
  /\ mgrClient = FALSE
  /\ mgrOp = NoMgrOp

ManagerNext ==
  \/ Initialize \/ AddChannel \/ ScrapeChannel \/ ScrapeAllChannels \/ RemoveChannel
  \/ PostAny

SpecManager == InitManager /\ [][ManagerNext]_vars

\* the manager of a deployment with the one scraper module the repository
\* ships: TelegramScraperManager.__init__ has run auto_discover_scrapers
InitShipped ==
  /\ StoreInit /\ RaceInit /\ RunInit
  /\ scrapers = {"basic_text_channel"}
  /\ instances = [k \in Keys |-> NoInst]
  /\ nextUid = 1
  /\ regOp = RegOp("none", "", NoOpts, "none", 0, FALSE)
  /\ resolved = [k \in Keys |-> NoResolved]
  /\ mgrClient = FALSE
  /\ mgrOp = NoMgrOp

SpecShipped == InitShipped /\ [][ManagerNext]_vars

Init == StoreInit /\ RaceInit /\ RegInit /\ RunInit

StoreNext == Connect \/ SaveMessage \/ GetMessageCount

SpecStore == Init /\ [][StoreNext]_vars

BatchNext == Connect \/ SaveMessageB \/ SaveMessages

SpecBatch == Init /\ [][BatchNext]_vars

RaceNext == \E w \in Writers : RaceFind(w) \/ RaceInsert(w)

SpecRace == Init /\ [][RaceNext]_vars

RegistryNext == RegisterScraper \/ GetScraper \/ RemoveScraper \/ AutoDiscover

SpecRegistry == Init /\ [][RegistryNext]_vars

\* the factory used by a caller that connects the scrapers it gets
ResolveNext == RegisterScraper \/ GetScraper \/ RemoveScraper \/ ConnectCached

SpecResolve == Init /\ [][ResolveNext]_vars

\* a MongoDataManager that never got a connection, on a collection other
\* processes write to
OfflineNext == ConnectRefused \/ SaveMessage \/ SaveMessages \/ GetMessageCount \/ OtherWriter

SpecOffline == Init /\ [][OfflineNext]_vars

RunNext ==
  \/ ScraperConnect \/ ScrapeStart \/ ScrapeItem \/ ScrapeFinish \/ ScrapeCancel
  \/ Post \/ OtherWriter

InitRun == StoreInit /\ RaceInit /\ RegInit /\ RunInitScraper

SpecRun == InitRun /\ [][RunNext]_vars

(***************************************************************************)
(* Properties.                                                             *)
(***************************************************************************)
\* the documents stored under the pair (channel, id)
Stored(D, channel, id) == { d \in D : d.channel = channel /\ d.id = id }

\* two dicts with the same content
SameRecord(m1, m2) == m1.id = m2.id /\ m1.channel = m2.channel /\ m1.text = m2.text

\* what ends a run from outside: no client, a failing request to the channel, an
\* item that cannot be transformed, a cancellation
RunFaults == {"RuntimeError", "SourceError", "TransformError", "Cancelled"}

\* C1 (as claimed): a scrape run with persistence enabled (store connected,
\* client connected, no failure of the source) on a channel whose stored ids
\* were 1..W, W >= 1, against a source exposing 1..M, M > W (M text-bearing),
\* persists exactly the text-bearing ids W+1..M, and the highest stored id is
\* then M.
C1_ResumeCorrectness ==
  \A W \in 1..MaxMsgs :
    (/\ run.pc = "done"
     /\ run.persist /\ run.dm
     /\ run.error \notin RunFaults
     /\ run.before = 1..W
     /\ run.srcLen > W
     /\ source[run.srcLen] # "")
    => (/\ run.saved = { i \in (W + 1)..run.srcLen : source[i] # "" }
        /\ Max(run.before \cup run.saved) = run.srcLen)

\* C2 (as claimed): in every reachable state the collection holds at most one
\* document per (channel, id) pair.
C2_Uniqueness ==
  \A d1, d2 \in docs :
    (d1.id # NoId /\ d1.id = d2.id /\ d1.channel = d2.channel) => d1 = d2

\* the first save_message of a new record R (with an id and a channel, its key
\* not stored) on a connected store that does not raise inserts it
C3_First ==
  (/\ lastOp'.op = "save_message"
   /\ collection
   /\ lastOp'.fail = "none"
   /\ lastOp'.args[1].oid = NoOid
   /\ lastOp'.args[1].id # NoId
   /\ lastOp'.args[1].channel # NoChannel
   /\ ~FindOne(docs, lastOp'.args[1].id, lastOp'.args[1].channel))
  => (/\ lastOp'.outcomes = <<"Inserted">>
      /\ lastOp'.ok
      /\ Cardinality(Stored(docs', lastOp'.args[1].channel, lastOp'.args[1].id)) = 1)

\* the save_message of R that follows the one that inserted R finds it
C3_Second ==
  (/\ lastOp.op = "save_message"
   /\ lastOp.outcomes = <<"Inserted">>
   /\ lastOp.args[1].id # NoId
   /\ lastOp.args[1].channel # NoChannel
   /\ lastOp'.op = "save_message"
   /\ lastOp'.fail = "none"
   /\ (lastOp'.args = lastOp.msgs
       \/ (lastOp'.args[1].oid = NoOid /\ SameRecord(lastOp'.args[1], lastOp.args[1]))))
  => (/\ lastOp'.outcomes = <<"AlreadyExists">>
      /\ lastOp'.ok
      /\ docs' = docs
      /\ Cardinality(Stored(docs', lastOp.args[1].channel, lastOp.args[1].id)) = 1)

\* C3: for a new record R with an id and a channel, two save_message(R) calls in
\* sequence on a connected store that does not raise take the branches Inserted,
\* then AlreadyExists, both return True, and exactly one document with R's
\* (channel, id) is stored afterwards.
C3_IdempotentUpsert == [][C3_First /\ C3_Second]_vars

\* C3 witness: the second of two save_message calls on the same dict has returned
C3_Witness ==
  /\ lastOp.op = "save_message"
  /\ lastOp.again
  /\ lastOp.fail = "none"
  /\ lastOp.args[1].id # NoId
  /\ lastOp.args[1].channel # NoChannel
  /\ lastOp.outcomes = <<"AlreadyExists">>
  /\ Cardinality(Stored(docs, lastOp.args[1].channel, lastOp.args[1].id)) = 1

\* C4 (as claimed): when all writers have called save_message with the same
\* (channel, id) and all have returned, exactly one document with that key is
\* stored and every writer saw a non-error outcome.
C4_ConcurrentUpsert ==
  (/\ \A w \in Writers : writers[w].pc = "done"
   /\ \A w1, w2 \in Writers : /\ writers[w1].msg.id = writers[w2].msg.id
                              /\ writers[w1].msg.channel = writers[w2].msg.channel
                              /\ (w1 # w2 => writers[w1].msg.text # writers[w2].msg.text))
  => (/\ \A w \in Writers : writers[w].outcome \in {"Inserted", "AlreadyExists"}
      /\ Cardinality(Stored(docs, writers[1].msg.channel, writers[1].msg.id)) = 1)

\* C5 (as claimed): once records of a channel are stored, the watermark read at
\* the start of a run on that channel returns the highest stored id.
C5_WatermarkMonotonic ==
  (run.pc # "idle" /\ run.persist /\ run.error # "RuntimeError" /\ run.before # {})
  => (run.lookup = "ok" /\ run.latest = Max(run.before))

\* the highest k with 1..k stored
ContigMax(S) == Max({ k \in 0..MaxMsgs : \A i \in 1..k : i \in S })

\* C6 (as claimed): in a run with persistence enabled that fetches everything
\* above the watermark, every text-bearing item whose save did not fail is
\* stored although the save of another item failed, and the watermark a run
\* reads is the highest id stored contiguously, so that a failed item is fetched
\* again.
C6_PartialFailure ==
  /\ (/\ run.pc = "done"
      /\ run.persist /\ run.dm
      /\ run.error \notin RunFaults
      /\ (run.before # {} \/ run.limit = NoLimit))
     => \A i \in (Max(run.before \cup {NoId}) + 1)..run.srcLen :
          (source[i] # "" /\ i \notin run.failed) => i \in StoredIds(docs, run.channel)
  /\ (run.pc # "idle" /\ run.persist /\ run.lookup = "ok")
     => run.latest = ContigMax(run.before)

\* C7 (as claimed): a run on a channel with no stored record, with limit L,
\* against a source with more than L items fetches exactly L items and persists
\* at most L records.
C7_InitialBound ==
  (/\ run.pc = "done"
   /\ run.error \notin RunFaults
   /\ run.before = {}
   /\ run.limit # NoLimit
   /\ run.srcLen > run.limit)
  => (run.fetched = run.limit /\ Cardinality(run.saved) <= run.limit)

\* C8 (as claimed): a run of a scraper with a store is incremental exactly when
\* records of its channel are stored; an incremental run asks for every id above
\* the watermark whatever the limit; any other run asks for the newest limit
\* items with no lower bound.
C8_FetchMode ==
  (run.pc # "idle" /\ run.error # "RuntimeError")
  => (/\ run.persist => (run.incremental <=> run.before # {})
      /\ run.incremental => run.plan = Desc(Max(run.before) + 1, run.srcLen)
      /\ ~run.incremental =>
           run.plan = IterMessages([i \in 1..run.srcLen |-> "p"], NoId, run.limit))

\* the text-bearing ids among the items fetched so far, in fetch order
TextBearingSeen ==
  SelectSeq(SubSeq(run.plan, 1, run.fetched), LAMBDA i : source[i] # "")

\* what holds of an item without text in every state of a run
C9_State ==
  /\ run.error = "none" => run.messages = TextBearingSeen
  /\ \A i \in run.saved : source[i] # ""
  /\ (run.pc = "done" /\ run.error = "none")
       => (run.result = run.messages /\ run.fetched = Len(run.plan))

\* the turn of the loop that fetches an item without text
C9_Step ==
  (/\ run.pc = "iter"
   /\ run'.fetched = run.fetched + 1
   /\ source[Head(run.queue)] = "")
  => (/\ run'.messages = run.messages
      /\ run'.saved = run.saved
      /\ docs' = docs
      /\ run'.error = "none"
      /\ run'.pc = "iter"
      /\ run'.queue = Tail(run.queue))

\* C9: an item fetched with an absent or empty text is neither persisted nor
\* included in the result of the run, raises no error, and the items that follow
\* it are processed: the result is the text-bearing items among the fetched ones.
C9_SkipEmpty == [](C9_State) /\ [][C9_Step]_vars

\* C9 witness: a finished run fetched an item without text and, after it, an item
\* with text that it returned
C9_Witness ==
  /\ run.pc = "done"
  /\ run.error = "none"
  /\ \E k, j \in 1..Len(run.plan) :
       /\ k < j
       /\ source[run.plan[k]] = ""
       /\ source[run.plan[j]] # ""
       /\ \E n \in 1..Len(run.result) : run.result[n] = run.plan[j]

\* get_scraper for a key that is not registered raises KeyError and constructs
\* nothing
C10_Unknown ==
  (regOp'.op = "get_scraper" /\ regOp'.key \notin scrapers)
  => (regOp'.raised = "KeyError" /\ instances' = instances /\ nextUid' = nextUid)

\* a get_scraper without options for a key with a cached instance returns that
\* instance and leaves the cache alone
C10_Cached ==
  (/\ regOp'.op = "get_scraper"
   /\ ~regOp'.opts.given
   /\ regOp'.key \in scrapers
   /\ Cached(instances, regOp'.key))
  => (/\ regOp'.raised = "none"
      /\ regOp'.ret = instances[regOp'.key].uid
      /\ instances' = instances)

\* C10 (as claimed): a get_scraper without options returns the instance the
\* latest get_scraper without options for the key returned, whenever the key
\* was not removed in between.
C10_SameAsClaimed ==
  [][(/\ regOp'.op = "get_scraper" /\ ~regOp'.opts.given /\ regOp'.raised = "none"
      /\ resolved[regOp'.key].uid # 0)
     => regOp'.ret = resolved[regOp'.key].uid]_vars

\* a get_scraper without options returns the instance the latest get_scraper
\* without options for the key returned, when the key was not removed and no
\* get_scraper with options was served for it in between
C10_Same ==
  (/\ regOp'.op = "get_scraper" /\ ~regOp'.opts.given
   /\ regOp'.key \in scrapers
   /\ resolved[regOp'.key].uid # 0
   /\ ~resolved[regOp'.key].opts)
  => (/\ regOp'.raised = "none"
      /\ regOp'.ret = resolved[regOp'.key].uid
      /\ instances' = instances)

\* C10 (amended): get_scraper with a source type that is not registered fails
\* with KeyError and creates no instance; two get_scraper calls for the same key
\* with no options, with neither a remove_scraper of the key nor a get_scraper
\* with options for the key in between, return the same cached instance.
C10_RegistryResolution == [][C10_Unknown /\ C10_Cached /\ C10_Same]_vars

\* C10 witness: the second of two get_scraper calls without options for one key
\* has returned the instance the first one returned
C10_Witness ==
  /\ regOp.op = "get_scraper"
  /\ regOp.again
  /\ regOp.raised = "none"
  /\ regOp.ret # 0
  /\ regOp.ret = instances[regOp.key].uid

\* C12: remove_scraper(name) evicts the instance cached and the registration
\* stored under name: afterwards name is not in list_available_scrapers, no
\* instance is cached under it, and get_scraper(name) raises KeyError; what is
\* stored under other names is untouched; it returns True exactly when something
\* (a registration or an instance) was stored under name.
C12_Remove ==
  [][regOp'.op = "remove_scraper" =>
       LET k == regOp'.key IN
       /\ k \notin scrapers'
       /\ ~Cached(instances', k)
       /\ \A o \in OptsSet :
            GetScraperResult(scrapers', instances', nextUid', k, o).raised = "KeyError"
       /\ \A j \in Keys \ {k} : (j \in scrapers' <=> j \in scrapers) /\ instances'[j] = instances[j]
       /\ regOp'.ok <=> (k \in scrapers \/ Cached(instances, k))]_vars

\* C12 witness: a remove_scraper has returned True for a name that had a cached
\* instance
C12_Witness ==
  /\ regOp.op = "remove_scraper"
  /\ regOp.ok
  /\ regOp.ret # 0
  /\ ~Cached(instances, regOp.key)
  /\ regOp.key \notin scrapers

\* C13 (as claimed): whatever happens while one module is loaded,
\* auto_discover_scrapers returns, and every module that loads is registered and
\* in the list returned.
C13_DiscoveryResilience ==
  regOp.op = "auto_discover_scrapers" =>
    /\ regOp.raised = "none"
    /\ \A k \in Keys : regOp.loads[k] = "ok" => (k \in scrapers /\ k \in regOp.found)

\* after every call the cache holds instances of registered keys only
C20_NoOrphan == \A k \in Keys : Cached(instances, k) => k \in scrapers

\* get_scraper(name, ...) and remove_scraper(name) one after the other, in
\* either order: the get_scraper returns an instance or raises KeyError, and the
\* state is the one the two calls produce in that order
C20_Orders ==
  /\ (regOp.op = "get_scraper" /\ regOp'.op = "remove_scraper" /\ regOp'.key = regOp.key)
       => (/\ regOp.raised \in {"none", "KeyError"}
           /\ (regOp.raised = "none" <=> regOp.ret # 0)
           /\ ~Cached(instances', regOp.key)
           /\ regOp.key \notin scrapers')
  /\ (regOp.op = "remove_scraper" /\ regOp'.op = "get_scraper" /\ regOp'.key = regOp.key)
       => (/\ regOp'.raised = "KeyError"
           /\ regOp'.ret = 0
           /\ instances' = instances
           /\ scrapers' = scrapers)

C14_ConnectFailure ==
  (run.pc # "idle" /\ ~run.connected)
  => (run.fetched = 0 /\ run.saved = {} /\ run.messages = <<>> /\ run.result = <<>>)

\* C16 (as claimed): in a run that no failure of the channel, no missing client
\* and no cancellation ended, every text-bearing item whose own transformation
\* did not raise is in the result, and is saved when the scraper has a connected
\* store and its own save did not fail.
C16_ItemContainment ==
  (run.pc = "done" /\ run.error \notin {"RuntimeError", "SourceError", "Cancelled"})
  => \A n \in 1..Len(run.plan) :
       LET i == run.plan[n] IN
       (source[i] # "" /\ i \notin run.bad)
       => (/\ \E j \in 1..Len(run.result) : run.result[j] = i
           /\ (run.persist /\ run.dm /\ i \notin run.failed) => i \in run.saved)

\* C19 (as claimed): a run of a scraper with a connected store that follows an
\* earlier run of it (one that was cut short included), asks for every message
\* and is itself not cut short leaves every text-bearing message of the channel
\* stored, except those whose save failed.
C19_Resumable ==
  (/\ run.pc = "done" /\ run.again
   /\ run.persist /\ run.dm
   /\ run.limit = NoLimit
   /\ run.error \notin RunFaults)
  => \A i \in 1..run.srcLen :
       (source[i] # "" /\ i \notin run.failed) => i \in StoredIds(docs, run.channel)

C18_BatchUpsert ==
  [][(collection /\ lastOp'.op = "save_messages" /\ Len(lastOp'.args) >= 1)
     => (/\ Len(lastOp'.outcomes) = Len(lastOp'.args)
         /\ \A k \in 1..Len(lastOp'.args) :
              LET m == lastOp'.args[k] IN
              (m.id # NoId /\ Stored(docs, m.channel, m.id) # {})
              => Stored(docs', m.channel, m.id) = Stored(docs, m.channel, m.id))]_vars

\* the scrapers cached for a channel name
AdaptersOf(I, n) == { I[k].uid : k \in { j \in Keys : Cached(I, j) /\ I[j].channel_name = n } }

\* C11 (as claimed): an add_channel or scrape_channel for a channel name leaves
\* the scraper cached for every other channel name in place, and a successful
\* add_channel leaves a scraper cached for its own channel name.
C11_PerChannel ==
  [][(mgrOp' # mgrOp /\ mgrOp'.op \in {"add_channel", "scrape_channel"})
     => (/\ \A n \in Channels \ {mgrOp'.name} :
              AdaptersOf(instances, n) \subseteq AdaptersOf(instances', n)
         /\ (mgrOp'.op = "add_channel" /\ mgrOp'.ok)
              => AdaptersOf(instances', mgrOp'.name) # {})]_vars

\* C15 (as claimed): scrape_all_channels runs the scraper of every channel, the
\* mapping it returns has an entry for every channel, that entry is what the
\* channel's own run returned, and it is the empty list for a channel whose run
\* failed (a connect that returned False, or an exception while scraping).
C15_CrossChannel ==
  mgrOp.op = "scrape_all_channels" =>
    \A k \in Keys :
      (/\ Cached(instances, k)
       /\ \A j \in Keys \ {k} : ~(Cached(instances, j)
                                  /\ instances[j].channel_name = instances[k].channel_name))
      => (/\ mgrOp.runs[k].ran
          /\ instances[k].channel_name \in mgrOp.entries
          /\ mgrOp.results[instances[k].channel_name] = mgrOp.runs[k].result
          /\ mgrOp.runs[k].failed => mgrOp.results[instances[k].channel_name] = <<>>)

\* C23 (as claimed): a scrape_channel(N) that follows a successful
\* add_channel(N, T) gets from the factory, and runs, the scraper that
\* add_channel created.
C23_ScrapeAdded ==
  [][(/\ mgrOp.op = "add_channel" /\ mgrOp.ok
      /\ mgrOp'.op = "scrape_channel" /\ mgrOp'.name = mgrOp.name)
     => (/\ mgrOp'.ret = mgrOp.ret
         /\ mgrOp'.runs[mgrOp'.name].ran
         /\ instances'[mgrOp.type].uid = mgrOp.ret)]_vars

\* C24 (as claimed): add_channel returns True only when the connect it made on
\* the new scraper returned True.
C24_AddReportsConnect ==
  (mgrOp.op = "add_channel" /\ mgrOp.ok) => instances[mgrOp.type].connected

\* C25 (as claimed): an add_channel that returns False leaves what
\* get_registered_channels returns, and the cached instances, as they were.
C25_FailedAddFrame ==
  [][(mgrOp' # mgrOp /\ mgrOp'.op = "add_channel" /\ ~mgrOp'.ok)
     => (/\ GetRegisteredChannels(instances') = GetRegisteredChannels(instances)
         /\ instances' = instances)]_vars

\* C26 (as claimed): a connect of a scraper that has a data_manager returns True
\* only when the connection of the data_manager was established.
C26_ConnectNeedsStore ==
  (scraper.save_to_mongo /\ scraper.connected) => scraper.dm

\* a get_scraper with options for a registered key constructs a scraper that did
\* not exist before, with these options and no client, and caches it under the
\* key in place of what was cached there; the other keys are untouched
C27_Replace ==
  (regOp'.op = "get_scraper" /\ regOp'.opts.given /\ regOp'.key \in scrapers)
  => LET k == regOp'.key IN
     /\ regOp'.raised = "none"
     /\ regOp'.ret = instances'[k].uid
     /\ regOp'.ret \notin { instances[j].uid : j \in Keys } \cup { resolved[j].uid : j \in Keys }
     /\ ~instances'[k].client
     /\ ~instances'[k].connected
     /\ instances'[k].save_to_mongo = regOp'.opts.save_to_mongo
     /\ instances'[k].channel_name
          = (IF regOp'.opts.channel_name # "" THEN regOp'.opts.channel_name ELSE k)
     /\ \A j \in Keys \ {k} : instances'[j] = instances[j]

\* a get_scraper without options for a key that has a cached instance returns
\* it and leaves the cache as it is
C27_Later ==
  (/\ regOp'.op = "get_scraper" /\ ~regOp'.opts.given /\ regOp'.key \in scrapers
   /\ instances[regOp'.key].uid # 0)
  => (regOp'.ret = instances[regOp'.key].uid /\ instances'[regOp'.key] = instances[regOp'.key])

\* the instance cached under a key is exchanged by nothing but a get_scraper
\* with options, a get_scraper that finds none cached, or a remove_scraper of
\* that key
C27_Keep ==
  \A k \in Keys :
    instances'[k].uid # instances[k].uid
    => (/\ regOp'.key = k
        /\ regOp'.op \in {"get_scraper", "remove_scraper"}
        /\ regOp'.op = "get_scraper" => (regOp'.opts.given \/ ~Cached(instances, k)))

\* C27: get_scraper called with options constructs a new scraper (without
\* client), stores it under the key in place of the one cached before, and the
\* get_scraper calls without options that follow return the new one, until the
\* key is removed or get_scraper is called with options again.
C27_OptionsReplace == [][C27_Replace /\ C27_Later /\ C27_Keep]_vars

\* C27 witness: a get_scraper without options has returned the scraper a
\* get_scraper with options put in place of the one returned before
C27_Witness ==
  /\ regOp.op = "get_scraper"
  /\ ~regOp.opts.given
  /\ regOp.renewed
  /\ regOp.ret = instances[regOp.key].uid
  /\ ~instances[regOp.key].client
  /\ instances[regOp.key].save_to_mongo = FALSE

\* C28 (as claimed): a save_message, on a connected store that does not raise,
\* of a new dict whose id is stored under other channels only (its own channel
\* field may be empty) inserts it as a new document and leaves the documents
\* stored before as they were.
C28_PerChannelDedup ==
  [][(/\ collection
      /\ lastOp'.op = "save_message"
      /\ lastOp'.fail = "none"
      /\ lastOp'.args[1].id # NoId
      /\ lastOp'.args[1].oid = NoOid
      /\ Stored(docs, lastOp'.args[1].channel, lastOp'.args[1].id) = {}
      /\ \E d \in docs : d.id = lastOp'.args[1].id /\ d.channel # lastOp'.args[1].channel)
     => (/\ lastOp'.outcomes = <<"Inserted">>
         /\ docs \subseteq docs'
         /\ Cardinality(Stored(docs', lastOp'.args[1].channel, lastOp'.args[1].id)) = 1)]_vars

\* what holds in every state of a run of a scraper constructed with
\* save_to_mongo=False: no watermark is read, the request to the channel is the
\* one of an initial scrape (the newest limit messages, all of them when limit
\* is None), nothing is saved, and a run that ends without error returns the
\* text-bearing messages among those
C29_State ==
  (run.pc # "idle" /\ ~run.persist)
  => (/\ run.lookup = "none" /\ ~run.incremental /\ run.latest = NoId
      /\ run.saved = {} /\ run.failed = {}
      /\ run.error # "RuntimeError"
           => (/\ Len(run.plan) = (IF run.limit = NoLimit THEN run.srcLen
                                   ELSE Min(run.limit, run.srcLen))
               /\ \A k \in 1..Len(run.plan) : run.plan[k] = run.srcLen - k + 1)
      /\ (run.pc = "done" /\ run.error = "none")
           => run.result = SelectSeq(run.plan, LAMBDA i : source[i] # ""))

\* no step of such a run touches the store
C29_Step ==
  (run' # run /\ ~run'.persist)
  => (docs' = docs /\ collection' = collection /\ lastOp' = lastOp)

\* C29: a scraper constructed with save_to_mongo=False never reads or writes
\* the store: every scrape run of it is an initial scrape bounded by limit,
\* persists nothing, and returns the processed text-bearing items.
C29_NoStore == [](C29_State) /\ [][C29_Step]_vars

\* C29 witness: a run without store of a channel holding more messages than the
\* limit has returned an item, while the collection holds documents of the
\* channel written by others
C29_Witness ==
  /\ run.pc = "done" /\ ~run.persist /\ run.error = "none"
  /\ run.limit # NoLimit /\ run.srcLen > run.limit
  /\ run.result # <<>>
  /\ StoredIds(docs, run.channel) # {}

\* C30: add_channel, scrape_channel and scrape_all_channels return a value
\* whatever the registry, the channel and the store do: no exception leaves
\* them; an add_channel that met an exception returns False, a scrape_channel
\* that met one returns the empty list, and scrape_all_channels returns a
\* mapping with the empty list for a scraper whose scrape raised.
C30_NoEscape ==
  mgrOp.op \in {"add_channel", "scrape_channel", "scrape_all_channels"}
  => (/\ mgrOp.raised = "none"
      /\ (mgrOp.op = "add_channel" /\ mgrOp.type \notin scrapers) => ~mgrOp.ok
      /\ (mgrOp.op = "scrape_channel" /\ (mgrOp.ret = 0 \/ ~instances[mgrOp.name].client))
           => mgrOp.results[mgrOp.name] = <<>>
      /\ mgrOp.op = "scrape_all_channels"
           => \A k \in Keys :
                Cached(instances, k)
                => (/\ instances[k].channel_name \in mgrOp.entries
                    /\ mgrOp.runs[k].ran
                    /\ ~instances[k].client => mgrOp.runs[k].result = <<>>))

\* C30 witness: scrape_channel has returned the empty list for a scraper whose
\* scrape raised RuntimeError (it has no client)
C30_Witness ==
  /\ mgrOp.op = "scrape_channel"
  /\ mgrOp.raised = "none"
  /\ mgrOp.ret # 0
  /\ ~instances[mgrOp.name].client
  /\ mgrOp.runs[mgrOp.name].ran /\ mgrOp.runs[mgrOp.name].failed
  /\ mgrOp.results[mgrOp.name] = <<>>

\* the keys of the instance cache (_instances)
C31_CacheKeys == { k \in Keys : Cached(instances, k) }

\* what one call may do to the two dictionaries: register_scraper and
\* auto_discover_scrapers only add registrations and leave the cache alone,
\* get_scraper caches under its own key only and only when it returns, and
\* remove_scraper takes its key out of both
C31_Step ==
  /\ regOp'.op \in {"register_scraper", "auto_discover_scrapers"}
       => (scrapers \subseteq scrapers' /\ instances' = instances)
  /\ regOp'.op = "get_scraper"
       => (/\ scrapers' = scrapers
           /\ \A j \in Keys \ {regOp'.key} : instances'[j] = instances[j]
           /\ (instances'[regOp'.key] # instances[regOp'.key]
                => regOp'.raised = "none" /\ regOp'.key \in scrapers))
  /\ regOp'.op = "remove_scraper"
       => (regOp'.key \notin scrapers' /\ regOp'.key \notin C31_CacheKeys')

\* C31: after any sequence of register_scraper, get_scraper, remove_scraper and
\* auto_discover_scrapers calls, run one after the other, the keys of the
\* instance cache are a subset of the registered scraper types.
C31_RegistryInvariant == [](C31_CacheKeys \subseteq scrapers) /\ [][C31_Step]_vars

\* C31 witness: a remove_scraper has deleted the instance and the registration
\* of one key while another key keeps its registration and its cached instance
C31_Witness ==
  /\ regOp.op = "remove_scraper"
  /\ regOp.ret # 0
  /\ regOp.ok
  /\ regOp.key \notin scrapers
  /\ C31_CacheKeys # {}
  /\ C31_CacheKeys \subseteq scrapers

\* C32: a save_message, on a connected store, of a dict whose (channel, id) is
\* already stored leaves the collection exactly as it was (the stored document
\* keeps its payload and its inserted_at, no document is added or removed) and
\* leaves the dict as it was passed; it returns True unless find_one raises.
C32_FirstWriterWins ==
  [][(/\ collection
      /\ lastOp'.op = "save_message"
      /\ lastOp'.args[1].id # NoId
      /\ Stored(docs, lastOp'.args[1].channel, lastOp'.args[1].id) # {})
     => (/\ docs' = docs
         /\ lastOp'.msgs = lastOp'.args
         /\ (lastOp'.fail = "none" => lastOp'.ok /\ lastOp'.outcomes = <<"AlreadyExists">>))]_vars

\* C32 witness: a new dict with another payload than the document stored under
\* its (channel, id) was passed to save_message, which returned True; the
\* document with the first payload is the only one stored under the key
C32_Witness ==
  /\ lastOp.op = "save_message"
  /\ lastOp.ok
  /\ lastOp.fail = "none"
  /\ lastOp.outcomes = <<"AlreadyExists">>
  /\ lastOp.args[1].oid = NoOid
  /\ lastOp.args[1].channel # NoChannel
  /\ \E d \in docs :
       /\ Stored(docs, lastOp.args[1].channel, lastOp.args[1].id) = {d}
       /\ d.text # lastOp.args[1].text
       /\ d.inserted_at # NoStamp

====
